---- MODULE Spec2Model ----
(***************************************************************************)
(* Model of the results step of the TikTok transcriber (src/App.tsx,       *)
(* ResultsStep): the sequential transcription pipeline runTranscription,   *)
(* the effect that starts it, the stop button, and the two pieces of App   *)
(* state it writes (transcriptStates, transcriptCache via useLocalStorage).*)
(*                                                                         *)
(* JavaScript is single threaded: an async function runs without           *)
(* interruption from one await to the next.  Each action below is one such *)
(* uninterrupted segment of one activation of runTranscription, or one     *)
(* React render + effect flush, or one click.                              *)
(*                                                                         *)
(* React: App re-renders whenever App state changes (setTranscriptStates   *)
(* and the setter returned by useLocalStorage both set App state).  On     *)
(* every App render useLocalStorage returns a fresh setValue closure       *)
(* (part_000 line 22), so the setTranscriptCache prop, which is a          *)
(* dependency of the useCallback at App.tsx line 498, changes identity,    *)
(* runTranscription is re-created and the effect at lines 500-506 runs its *)
(* cleanup and then calls runTranscription again.  The activations that    *)
(* were already suspended at an await are not cancelled by this: they keep *)
(* their closure (work-set, index, successCount) and go on when their      *)
(* promise settles.                                                        *)
(*                                                                         *)
(* An App render, its commit and the flush of the effect are taken as one  *)
(* step (RunEffect), so the transcriptCache an activation closes over is   *)
(* the cache at the moment it starts.  When the render happens relative to *)
(* the settling of fetches, service calls and timers is left open.         *)
(*                                                                         *)
(* The scanned records are taken to have pairwise distinct webVideoUrl.    *)
(***************************************************************************)
EXTENDS Integers, Sequences, FiniteSets, TLC

\* ------------------------------------------------------------------ bounds

\* Activations of runTranscription the model follows (the effect may start
\* a new one after every App render).
MaxRuns == 2

\* The scanned records, by webVideoUrl, in scan order.
ScannedUrls == <<"v1", "v2">>

\* Texts the transcription service may return (non-empty strings).
Texts == {"t1", "t2"}

\* Marks an absent entry of a Record<string, ...>.
None == "none"

\* Audio URLs the user may paste (non-empty strings).
AudioUrls == {"a1", "a2"}

\* What the Google AI key input can hold: nothing, or a key.
KeyInputs == {"", "k"}

\* The key a session starts with (localStorage, App.tsx 132).
StoredKey == "k"

\* ------------------------------------------------------------------- state

VARIABLES
  stage,             \* App state: 'scan' | 'scan-results' | 'match' | 'results'
  videos,            \* App state: the scanned records (their webVideoUrl), in order
  mp3UrlMap,         \* App state: webVideoUrl -> audio URL or None
  transcriptStates,  \* App state: webVideoUrl -> live status
  transcriptCache,   \* App state + localStorage: webVideoUrl -> transcript or None
  stopRequest,       \* ResultsStep: stopRequest.current
  status,            \* ResultsStep: status line
  isProcessing,      \* ResultsStep: isProcessing
  appDirty,          \* App state was set since the last App render
  runs,              \* the activations of runTranscription, in start order
  isLoading,         \* App state: a scan is in progress
  mp3UrlsInput,      \* MatchStep: the audio-URL textarea, as its lines
  videoUrlsInput,    \* MatchStep: the video-URL textarea, as its lines
  matchStatus,       \* MatchStep: matchStatus
  matchedCount,      \* MatchStep: matchedCount
  matchedSince,      \* handleMatch ran since MatchStep was mounted / since the last edit
  replacedKeys,      \* the keys of the mp3UrlMap the last handleMatch found
  videoText,         \* the scanned records' text (description), by webVideoUrl
  download,          \* what downloadCsv produced last
  fetches,           \* the calls of getBase64FromUrl made so far, with their outcomes
  geminiApiKey       \* App: geminiApiKey (useLocalStorage), the Google AI key input

pipeVars == <<transcriptStates, transcriptCache, stopRequest, status,
              isProcessing, appDirty, runs>>

matchVars == <<mp3UrlsInput, videoUrlsInput, matchStatus, matchedCount,
               matchedSince, replacedKeys>>

csvVars == <<videoText, download>>

vars == <<stage, videos, mp3UrlMap, pipeVars, isLoading, matchVars, csvVars, fetches, geminiApiKey>>

Urls == {ScannedUrls[k] : k \in 1..Len(ScannedUrls)}

\* Live status of one url.  The code has status 'loading' with two texts
\* (lines 474 and 478); they are told apart here as fetching / transcribing.
LiveStatus == {None, "fetching", "transcribing", "success", "error"}

Status(kind, n) == [kind |-> kind, n |-> n]

NoSummary == Status("none", 0)

\* --------------------------------------------------------- pure helpers

\* videos.filter(v => mp3UrlMap[v.webVideoUrl] && !transcriptCache[v.webVideoUrl])
\* (line 459).  Audio URLs and transcripts are non-empty strings, so
\* truthiness is presence.
videosToTranscribe_IgnoreCache(vs, map, cache) ==
  SelectSeq(vs, LAMBDA u : map[u] # None)

videosToTranscribe(vs, map, cache) ==
  SelectSeq(vs, LAMBDA u : map[u] # None /\ cache[u] = None)

Range(seq) == {seq[k] : k \in 1..Len(seq)}

\* One activation of runTranscription: its locals, and a record of what it
\* has done so far (fetched .. summary), which the code does not keep.
NewRun(vs, map, cache) ==
  [pc           |-> "start",
   videos       |-> vs,         \* the props it closes over
   mp3UrlMap    |-> map,
   q            |-> videosToTranscribe(vs, map, cache),
   i            |-> 1,          \* loop index, 1-based (code: i + 1)
   successCount |-> 0,
   cachedAtStart |-> {u \in Urls : cache[u] # None},
   fetched      |-> <<>>,       \* urls whose audio fetch it started, in order
   transcribed  |-> <<>>,       \* urls whose transcription call it started
   succeeded    |-> {},         \* <<url, text>>: transcriptions it saw succeed
   failed       |-> {},         \* urls it set to error
   delays       |-> 0,          \* inter-call delays it awaited
   sawStop      |-> FALSE,      \* it read stopRequest.current = true
   summary      |-> NoSummary]  \* terminal status it published

\* The state one segment of runTranscription reads and writes: the shared
\* React state and the activation's own record.
World(r) ==
  [transcriptStates |-> transcriptStates,
   transcriptCache  |-> transcriptCache,
   stopRequest      |-> stopRequest,
   status           |-> status,
   isProcessing     |-> isProcessing,
   appDirty         |-> appDirty,
   run              |-> r]

setStatus(w, s) == [w EXCEPT !.status = s]

\* setTranscriptStates(prev => ({...prev, [url]: ...})): always a new object,
\* so App re-renders.
setTranscriptStates(w, url, st) ==
  [w EXCEPT !.transcriptStates[url] = st, !.appDirty = TRUE]

\* setTranscriptCache given an object built from the one entry, not an updater.
setTranscriptCache_Replace(w, url, text) ==
  [w EXCEPT !.transcriptCache = [u \in DOMAIN @ |-> IF u = url THEN text ELSE None],
            !.appDirty = TRUE]

\* useLocalStorage.setValue with an updater: the updater is applied to the
\* latest stored value and the result is written to localStorage.
setTranscriptCache(w, url, text) ==
  [w EXCEPT !.transcriptCache[url] = text, !.appDirty = TRUE]

\* Lines 494-497: after the loop.
RunEnd(w) ==
  LET w1 == IF ~w.stopRequest
            THEN [setStatus(w, Status("completed", w.run.successCount))
                    EXCEPT !.run.summary = Status("completed", w.run.successCount)]
            ELSE [w EXCEPT !.run.sawStop = TRUE]
  IN [w1 EXCEPT !.isProcessing = FALSE, !.run.pc = "done"]

\* IterationStart without the stop check of lines 464-467.
IterationStart_NoStopCheck(w) ==
  IF w.run.i > Len(w.run.q) THEN RunEnd(w)
  ELSE LET url == w.run.q[w.run.i]
           w1  == setStatus(w, Status("processing", w.run.i))
           w2  == setTranscriptStates(w1, url, "fetching")
       IN [w2 EXCEPT !.run.pc = "fetching",
                     !.run.fetched = Append(@, url)]

\* Lines 463-477: the loop test, the stop check at the top of an iteration,
\* and the start of the item's audio fetch.
IterationStart(w) ==
  IF w.run.i > Len(w.run.q) THEN RunEnd(w)
  ELSE IF w.stopRequest
  THEN RunEnd([setStatus(w, Status("stopped", w.run.successCount))
                 EXCEPT !.run.summary = Status("stopped", w.run.successCount),
                        !.run.sawStop = TRUE])
  ELSE LET url == w.run.q[w.run.i]
           w1  == setStatus(w, Status("processing", w.run.i))
           w2  == setTranscriptStates(w1, url, "fetching")
       IN [w2 EXCEPT !.run.pc = "fetching",
                     !.run.fetched = Append(@, url)]

\* AfterItem without the "is there a next item" test of line 489.
AfterItem_AlwaysDelay(w) ==
  IF ~w.stopRequest
  THEN [w EXCEPT !.run.pc = "delay", !.run.delays = @ + 1]
  ELSE IterationStart([w EXCEPT !.run.i = @ + 1, !.run.sawStop = TRUE])

\* AfterItem without the stop test of line 489.
AfterItem_IgnoreStop(w) ==
  IF w.run.i < Len(w.run.q)
  THEN [w EXCEPT !.run.pc = "delay", !.run.delays = @ + 1]
  ELSE IterationStart([w EXCEPT !.run.i = @ + 1])

\* Lines 488-492: the delay test after an item, then i++.
AfterItem(w) ==
  IF w.run.i < Len(w.run.q) /\ ~w.stopRequest
  THEN [w EXCEPT !.run.pc = "delay", !.run.delays = @ + 1]
  ELSE IterationStart([w EXCEPT !.run.i = @ + 1,
                                !.run.sawStop = @ \/ (w.run.i < Len(w.run.q))])

\* ItemFailed with the try/catch around the whole loop instead of one item:
\* the first failure ends the activation.
ItemFailed_Abort(w) ==
  LET url == w.run.q[w.run.i]
  IN RunEnd([setTranscriptStates(w, url, "error")
               EXCEPT !.run.failed = @ \cup {url}])

\* Lines 483-486: the catch block.
ItemFailed(w) ==
  LET url == w.run.q[w.run.i]
  IN AfterItem([setTranscriptStates(w, url, "error")
                  EXCEPT !.run.failed = @ \cup {url}])

\* FetchSucceeded taking the fetched audio for the result: success and the
\* cache write without a transcription call.
FetchSucceeded_NoCall(w) ==
  LET url == w.run.q[w.run.i]
      w1  == setTranscriptStates(w, url, "success")
      w2  == setTranscriptCache(w1, url, "t1")
  IN AfterItem([w2 EXCEPT !.run.successCount = @ + 1,
                          !.run.succeeded = @ \cup {<<url, "t1">>}])

\* Lines 477-479: the audio fetch resolved; publish and call the service.
FetchSucceeded(w) ==
  LET url == w.run.q[w.run.i]
  IN [setTranscriptStates(w, url, "transcribing")
        EXCEPT !.run.pc = "transcribing",
               !.run.transcribed = Append(@, url)]

\* TranscriptionSucceeded under preemptive cancellation: a result that arrives
\* while the stop signal is set is thrown away.
TranscriptionSucceeded_DropOnStop(w, text) ==
  LET url == w.run.q[w.run.i]
      w1  == setTranscriptStates(w, url, "success")
      w2  == setTranscriptCache(w1, url, text)
  IN IF w.stopRequest
     THEN RunEnd([w EXCEPT !.run.sawStop = TRUE])
     ELSE AfterItem([w2 EXCEPT !.run.successCount = @ + 1,
                               !.run.succeeded = @ \cup {<<url, text>>}])

\* TranscriptionSucceeded without the cache write of line 481.
TranscriptionSucceeded_NoCacheWrite(w, text) ==
  LET url == w.run.q[w.run.i]
      w1  == setTranscriptStates(w, url, "success")
  IN AfterItem([w1 EXCEPT !.run.successCount = @ + 1,
                          !.run.succeeded = @ \cup {<<url, text>>}])

\* Lines 479-482: the transcription call returned text.
TranscriptionSucceeded(w, text) ==
  LET url == w.run.q[w.run.i]
      w1  == setTranscriptStates(w, url, "success")
      w2  == setTranscriptCache(w1, url, text)
  IN AfterItem([w2 EXCEPT !.run.successCount = @ + 1,
                          !.run.succeeded = @ \cup {<<url, text>>}])

\* Lines 456-460 and the first loop iteration up to its first await.
RunStart(w) ==
  IterationStart([w EXCEPT !.stopRequest = FALSE, !.isProcessing = TRUE])

\* Write a segment's result back.  setStatus and setIsProcessing do nothing
\* once ResultsStep is unmounted.
Commit(k, w) ==
  /\ transcriptStates' = w.transcriptStates
  /\ transcriptCache' = w.transcriptCache
  /\ stopRequest' = w.stopRequest
  /\ status' = IF stage = "results" THEN w.status ELSE status
  /\ isProcessing' = IF stage = "results" THEN w.isProcessing ELSE isProcessing
  /\ appDirty' = w.appDirty
  /\ runs' = IF k > Len(runs) THEN Append(runs, w.run)
             ELSE [runs EXCEPT ![k] = w.run]
  /\ UNCHANGED <<stage, videos, mp3UrlMap, isLoading, matchVars, csvVars, fetches, geminiApiKey>>

\* MatchStep is not mounted: its state does not exist.
NoMatchStep ==
  /\ mp3UrlsInput = <<>>
  /\ videoUrlsInput = <<>>
  /\ matchStatus = "none"
  /\ matchedCount = 0
  /\ matchedSince = "none"
  /\ replacedKeys = {}

\* Nothing was downloaded.
NoDownload == [alerted |-> FALSE, rows |-> <<>>, file |-> <<>>]

\* ----------------------------------------------------------------- actions

\* The results view has just been mounted (App.tsx 197-204, 446-449): no
\* activation yet.  The audio map is any non-empty one (the button that leads
\* here is disabled while matchedCount is 0, line 436), the cache is whatever
\* earlier sessions left in localStorage.
Init ==
  /\ stage = "results"
  /\ videos = ScannedUrls
  /\ mp3UrlMap \in [Urls -> {None, "a1"}] \ {[u \in Urls |-> None]}
  /\ isLoading = FALSE
  /\ NoMatchStep
  /\ videoText = [u \in Urls |-> <<>>]
  /\ download = NoDownload
  /\ fetches = <<>>
  /\ geminiApiKey = StoredKey
  /\ transcriptCache \in {[u \in Urls |-> None],
                         [u \in Urls |-> IF u = ScannedUrls[1] THEN "t1" ELSE None]}
  /\ transcriptStates = [u \in Urls |-> None]
  /\ stopRequest = FALSE
  /\ status = Status("ready", 0)
  /\ isProcessing = FALSE
  /\ appDirty = FALSE
  /\ runs = <<>>

\* useEffect(() => { runTranscription(); return cleanup }, [runTranscription])
\* (lines 500-506).  It runs after the mount, and again after every App
\* render, because every App render changes runTranscription's identity.  The
\* cleanup of the previous effect runs first and sets stopRequest.current =
\* true; runTranscription then resets it in its first statement.
RunEffect ==
  /\ stage = "results"
  /\ Len(runs) < MaxRuns
  /\ runs = <<>> \/ appDirty
  /\ LET w0 == [World(NewRun(videos, mp3UrlMap, transcriptCache))
                  EXCEPT !.appDirty = FALSE,
                         !.stopRequest = IF runs = <<>> THEN @ ELSE TRUE]
     IN Commit(Len(runs) + 1, RunStart(w0))

\* await getBase64FromUrl(mp3Url) settles (lines 12-36, 477).
FetchDone(k) ==
  /\ runs[k].pc = "fetching"
  /\ \E ok \in BOOLEAN :
       Commit(k, IF ok THEN FetchSucceeded(World(runs[k]))
                 ELSE ItemFailed(World(runs[k])))

\* await transcribeAudioWithGemini(...) returns text (line 479).
TranscribeOk(k) ==
  /\ runs[k].pc = "transcribing"
  /\ \E text \in Texts : Commit(k, TranscriptionSucceeded(World(runs[k]), text))

\* await transcribeAudioWithGemini(...) throws (line 479, 483).
TranscribeFail(k) ==
  /\ runs[k].pc = "transcribing"
  /\ Commit(k, ItemFailed(World(runs[k])))

\* The inter-call delay elapsed (line 490); i++ and the next iteration.
DelayDone(k) ==
  /\ runs[k].pc = "delay"
  /\ Commit(k, IterationStart([World(runs[k]) EXCEPT !.run.i = @ + 1]))

\* The Stop button (lines 451-454, shown while isProcessing, 513-516).
handleStopProcessing ==
  /\ stage = "results"
  /\ isProcessing
  /\ stopRequest' = TRUE
  /\ status' = Status("stopping", 0)
  /\ UNCHANGED <<stage, videos, mp3UrlMap, transcriptStates, transcriptCache,
                 isProcessing, appDirty, runs, isLoading, matchVars, csvVars, fetches, geminiApiKey>>

\* The Start Over button (lines 166-172, shown while not isProcessing,
\* 517-519).  ResultsStep is unmounted, so the cleanup of its effect runs
\* (line 504).
handleStartOver ==
  /\ stage = "results"
  /\ ~isProcessing
  /\ stage' = "scan"
  /\ videos' = <<>>
  /\ mp3UrlMap' = [u \in Urls |-> None]
  /\ transcriptStates' = [u \in Urls |-> None]
  /\ stopRequest' = TRUE
  /\ appDirty' = FALSE
  /\ UNCHANGED <<transcriptCache, status, isProcessing, runs, isLoading,
                 matchVars, csvVars, fetches, geminiApiKey>>

\* The page is reloaded: every activation of runTranscription dies with the
\* page, React state starts anew, and useLocalStorage reads transcriptCache
\* back from localStorage (part_000, lines 9-20), where setValue wrote it.
Reload ==
  /\ stage' = "scan"
  /\ videos' = <<>>
  /\ mp3UrlMap' = [u \in Urls |-> None]
  /\ transcriptStates' = [u \in Urls |-> None]
  /\ transcriptCache' = transcriptCache
  /\ stopRequest' = FALSE
  /\ status' = Status("ready", 0)
  /\ isProcessing' = FALSE
  /\ appDirty' = FALSE
  /\ runs' = [k \in 1..Len(runs) |->
                IF runs[k].pc = "done" THEN runs[k] ELSE [runs[k] EXCEPT !.pc = "killed"]]
  /\ isLoading' = FALSE
  /\ UNCHANGED <<matchVars, csvVars, fetches, geminiApiKey>>

Next ==
  \/ RunEffect
  \/ handleStartOver
  \/ \E k \in 1..Len(runs) : FetchDone(k)
  \/ \E k \in 1..Len(runs) : TranscribeOk(k)
  \/ \E k \in 1..Len(runs) : TranscribeFail(k)
  \/ \E k \in 1..Len(runs) : DelayDone(k)
  \/ handleStopProcessing

Spec == Init /\ [][Next]_vars

\* The same with reloads of the page.
NextReload == Next \/ Reload

SpecReload == Init /\ [][NextReload]_vars

TypeOK ==
  /\ transcriptStates \in [Urls -> LiveStatus]
  /\ transcriptCache \in [Urls -> {None} \cup Texts]
  /\ stopRequest \in BOOLEAN
  /\ isProcessing \in BOOLEAN
  /\ Len(runs) <= MaxRuns

\* ------------------------------------------------------------ properties

InFlight(k) == runs[k].pc \in {"fetching", "transcribing"}

RunIds == 1..Len(runs)

SucceededUrls(k) == {p[1] : p \in runs[k].succeeded}

\* C1: at most one item has an audio fetch or a transcription call in flight
\* at any moment (no two items, no two activations of runTranscription).
C1_AtMostOneInFlight ==
  Cardinality({k \in RunIds : InFlight(k)}) <= 1

\* C2: an activation that ended without ever reading the stop signal as set
\* attempted each of the N items of its work-set exactly once, in order,
\* awaited N-1 delays (none for N = 0), and published "completed, n" with n
\* its successCount, which is the number of its items that succeeded.
C2_NoStopRunCounts ==
  \A k \in RunIds :
    (runs[k].pc = "done" /\ ~runs[k].sawStop) =>
      /\ runs[k].fetched = runs[k].q
      /\ Range(runs[k].transcribed) \subseteq Range(runs[k].q)
      /\ Len(runs[k].transcribed) = Cardinality(Range(runs[k].transcribed))
      /\ runs[k].delays = (IF runs[k].q = <<>> THEN 0 ELSE Len(runs[k].q) - 1)
      /\ runs[k].summary = Status("completed", Cardinality(runs[k].succeeded))
      /\ SucceededUrls(k) \cup runs[k].failed = Range(runs[k].q)
      /\ Cardinality(SucceededUrls(k)) = Cardinality(runs[k].succeeded)

C2_Witness ==
  \E k \in RunIds :
    /\ runs[k].pc = "done" /\ ~runs[k].sawStop
    /\ Len(runs[k].q) = 2
    /\ runs[k].delays = 1
    /\ runs[k].summary = Status("completed", 1)
    /\ runs[k].failed # {}

\* C3: an activation that has read the stop signal as set has ended; the item
\* k it was about to start and all later items of its work-set were never
\* fetched, transcribed or given a status by it; and if an item was left, it
\* published "stopped, n" with n the number of successes among items 1..k-1.
C3_StopBeforeItemK ==
  \A k \in RunIds :
    runs[k].sawStop =>
      /\ runs[k].pc = "done"
      /\ runs[k].fetched = SubSeq(runs[k].q, 1, runs[k].i - 1)
      /\ \A j \in runs[k].i..Len(runs[k].q) :
           runs[k].q[j] \notin Range(runs[k].transcribed)
                          \cup SucceededUrls(k) \cup runs[k].failed
      /\ runs[k].i <= Len(runs[k].q) =>
           runs[k].summary = Status("stopped", Cardinality(runs[k].succeeded))

C3_Witness ==
  \E k \in RunIds :
    /\ runs[k].sawStop
    /\ Len(runs[k].q) = 2 /\ runs[k].i = 2
    /\ runs[k].summary = Status("stopped", 1)

\* C4: the work-set of an activation is exactly the scanned urls that have an
\* audio URL and were not in the cache when it started, in scan order; it
\* never fetches or transcribes a url that was in the cache at its start.
C4_WorkSet ==
  \A k \in RunIds :
    /\ Range(runs[k].q) =
         {u \in Range(runs[k].videos) :
            runs[k].mp3UrlMap[u] # None /\ u \notin runs[k].cachedAtStart}
    /\ \A a, b \in 1..Len(runs[k].q) :
         a < b => \E x, y \in 1..Len(runs[k].videos) :
                    /\ x < y
                    /\ runs[k].videos[x] = runs[k].q[a]
                    /\ runs[k].videos[y] = runs[k].q[b]
    /\ Range(runs[k].fetched) \cap runs[k].cachedAtStart = {}
    /\ Range(runs[k].transcribed) \cap runs[k].cachedAtStart = {}

C4_Witness ==
  \E k \in RunIds :
    /\ runs[k].cachedAtStart # {}
    /\ \A u \in runs[k].cachedAtStart : runs[k].mp3UrlMap[u] # None
    /\ runs[k].q # <<>>
    /\ runs[k].pc = "done"

C6_FailureDoesNotAbort ==
  /\ [][\A k \in RunIds :
          \A u \in runs'[k].failed \ runs[k].failed :
            /\ transcriptStates'[u] = "error"
            /\ transcriptCache' = transcriptCache
            /\ (runs[k].i < Len(runs[k].q) /\ ~stopRequest) =>
                 (runs'[k].pc = "delay" /\ runs'[k].i = runs[k].i)]_vars
  /\ [](\A k \in RunIds :
          (runs[k].pc = "done" /\ ~runs[k].sawStop /\ runs[k].failed # {}) =>
             runs[k].fetched = runs[k].q)
  /\ [][\A k \in RunIds :
          (runs[k].pc = "delay" /\ runs'[k].pc # "delay" /\ ~stopRequest) =>
             /\ runs'[k].pc = "fetching"
             /\ runs'[k].fetched = Append(runs[k].fetched, runs[k].q[runs[k].i + 1])]_vars

C6_Witness ==
  \E k \in RunIds :
    /\ runs[k].pc = "done" /\ ~runs[k].sawStop
    /\ Len(runs[k].q) = 2
    /\ runs[k].q[1] \in runs[k].failed
    /\ runs[k].q[2] \in Range(runs[k].fetched)
    /\ transcriptCache[runs[k].q[1]] = None

\* C7: after a url's live status became error, no audio fetch and no
\* transcription call is issued for it (nothing here invokes the pipeline
\* deliberately: the only user action is Stop).
C7_NoAutomaticRetry ==
  [][\A u \in Urls :
       transcriptStates[u] = "error" =>
         \A k \in 1..Len(runs') :
           LET old == IF k <= Len(runs) THEN runs[k] ELSE NewRun(<<>>, mp3UrlMap, transcriptCache)
           IN /\ Len(runs'[k].fetched) > Len(old.fetched)
                   => runs'[k].fetched[Len(runs'[k].fetched)] # u
              /\ Len(runs'[k].transcribed) > Len(old.transcribed)
                   => runs'[k].transcribed[Len(runs'[k].transcribed)] # u]_vars

\* C8: the live status of a url only moves forward: fetching, then
\* transcribing, then success or error.
StatusRank(st) ==
  CASE st = None -> 0
    [] st = "fetching" -> 1
    [] st = "transcribing" -> 2
    [] OTHER -> 3

C8_StatusNeverRegresses ==
  [][\A u \in Urls :
       /\ StatusRank(transcriptStates'[u]) >= StatusRank(transcriptStates[u])
       /\ StatusRank(transcriptStates[u]) = 3
            => transcriptStates'[u] = transcriptStates[u]]_vars

\* C9: a key present in the cache is never written again: its transcript
\* never changes.
C9_CacheAppendOnly ==
  [][\A u \in Urls :
       transcriptCache[u] # None => transcriptCache'[u] = transcriptCache[u]]_vars

\* C10: every activation that has ended published a terminal summary with its
\* success count: "stopped, n" if it read the stop signal as set, otherwise
\* "completed, n".
C10_TerminalSummary ==
  \A k \in RunIds :
    runs[k].pc = "done" =>
      runs[k].summary = Status(IF runs[k].sawStop THEN "stopped" ELSE "completed",
                               runs[k].successCount)


\* C11.  Once the results view is torn down (stage is no longer 'results')
\* no audio fetch and no transcription call is started any more.
C11_NoCallAfterTeardown ==
  [][stage # "results" =>
       \A k \in RunIds :
         /\ Len(runs'[k].fetched) = Len(runs[k].fetched)
         /\ Len(runs'[k].transcribed) = Len(runs[k].transcribed)]_vars


\* Activation k finishes its current item in this step (success or failure).
ItemFinishes(k) ==
  /\ k \in RunIds
  /\ \/ runs'[k].failed # runs[k].failed
     \/ runs'[k].succeeded # runs[k].succeeded

\* C12.  When an activation finishes item i it awaits the inter-call delay
\* exactly when item i is not its last item and the stop flag is not set at
\* that moment; so it never waits after its last item, and never once it has
\* read the stop flag as set.
C12_DelayExactlyWhen ==
  /\ [][\A k \in RunIds :
          ItemFinishes(k) =>
            /\ runs'[k].pc = "delay" <=> (runs[k].i < Len(runs[k].q) /\ ~stopRequest)
            /\ runs'[k].delays = runs[k].delays
                                   + (IF runs'[k].pc = "delay" THEN 1 ELSE 0)]_vars
  /\ [](\A k \in RunIds :
          runs[k].pc = "delay" => runs[k].i < Len(runs[k].q) /\ ~runs[k].sawStop)

\* An activation is waiting after its first item of two, and another one
\* finished its first item of two with the stop flag set and did not wait.
C12_Witness ==
  \E k, j \in RunIds :
    /\ runs[k].pc = "delay" /\ runs[k].delays = 1 /\ Len(runs[k].q) = 2
    /\ runs[j].pc = "done" /\ runs[j].delays = 0 /\ Len(runs[j].q) = 2
    /\ runs[j].sawStop /\ runs[j].summary.kind = "stopped"
    /\ Len(runs[j].fetched) = 1


\* Transcription calls started so far, by all activations.
CallsStarted ==
  LET sum[n \in 0..Len(runs)] ==
        IF n = 0 THEN 0 ELSE sum[n - 1] + Len(runs[n].transcribed)
  IN sum[Len(runs)]

\* Inter-call delays awaited to their end so far, by all activations.
DelaysCompleted ==
  LET sum[n \in 0..Len(runs)] ==
        IF n = 0 THEN 0
        ELSE sum[n - 1] + runs[n].delays - (IF runs[n].pc = "delay" THEN 1 ELSE 0)
  IN sum[Len(runs)]

\* C13.  Between the starts of any two transcription calls a full inter-call
\* delay has been awaited: so the calls started never exceed the delays
\* completed by more than one.
C13_DelayBetweenCalls == CallsStarted <= DelaysCompleted + 1


\* ------------------------------------------------- the workflow and MatchStep

\* Longest textarea content considered, in lines.
MaxLines == 2

\* Lines the user may type: blank, padded, scanned or not.
RawVideoLines == {"", " v1 ", "v2"}

RawMp3Lines == {" ", "a1", "a2"}

\* String.prototype.trim on those lines.
trim(l) ==
  CASE l = " "    -> ""
    [] l = " v1 " -> "v1"
    [] OTHER      -> l

\* input.split('\n').map(l => l.trim()).filter(Boolean), lines 342-343.
Lines(input) ==
  SelectSeq([n \in 1..Len(input) |-> trim(input[n])], LAMBDA l : l # "")

\* What one edit of a textarea can make of it: a further line, or nothing.
Edits(input, raw) ==
  {<<>>} \cup (IF Len(input) < MaxLines THEN {Append(input, l) : l \in raw} ELSE {})

\* What fetchTikTokData may resolve to: the items of the dataset in the order
\* the service returns them, mapped one to one (lines 61-86); nothing removes
\* an item that has the webVideoUrl of another.
ScanResults ==
  {SubSeq(ScannedUrls, 1, n) : n \in 0..Len(ScannedUrls)}
    \cup {<<ScannedUrls[1], ScannedUrls[1]>>}

EmptyMap == [u \in Urls |-> None]

Keys(map) == {u \in Urls : map[u] # None}

\* userInputMap pairing every video line with the first audio line.
userInputMap_FirstAudio(videoLines, mp3Lines) ==
  [u \in Urls |-> IF u \in Range(videoLines) THEN mp3Lines[1] ELSE None]

\* Lines 359-362: Map.set in list order, so a repeated video line keeps the
\* audio line of its last position.
userInputMap(videoLines, mp3Lines) ==
  [u \in Urls |->
     IF u \in Range(videoLines)
     THEN mp3Lines[CHOOSE n \in 1..Len(videoLines) :
                     /\ videoLines[n] = u
                     /\ \A m \in 1..Len(videoLines) : videoLines[m] = u => m <= n]
     ELSE None]

\* newMp3UrlMap without the has() test against the scanned records.
newMp3UrlMap_NoFilter(vs, uim) == uim

\* Lines 364-371: the entries of userInputMap whose key is a scanned record.
newMp3UrlMap(vs, uim) ==
  [u \in Urls |-> IF u \in Range(vs) THEN uim[u] ELSE None]

\* Lines 365-371: count++ once per scanned record found in userInputMap.
count(vs, uim) == Len(SelectSeq(vs, LAMBDA u : uim[u] # None))

\* setMp3UrlMap merging the new entries into the previous object.
setMp3UrlMap_Merge(prev, new) ==
  [u \in Urls |-> IF new[u] # None THEN new[u] ELSE prev[u]]

\* setMp3UrlMap(value): the state becomes the value.
setMp3UrlMap(prev, new) == new

\* The failure branches without their setMp3UrlMap({}).
MatchFailed_KeepMap(prev, st) ==
  [map |-> prev, matchedCount |-> 0, matchStatus |-> st]

\* Lines 346-349 and 353-356.
MatchFailed(prev, st) ==
  [map |-> setMp3UrlMap(prev, EmptyMap), matchedCount |-> 0, matchStatus |-> st]

\* handleMatch, lines 341-381, as a function of what it reads.
Match(prev, vs, mp3Input, videoInput) ==
  LET mp3Lines   == Lines(mp3Input)
      videoLines == Lines(videoInput)
  IN IF Len(mp3Lines) = 0 \/ Len(videoLines) = 0
     THEN MatchFailed(prev, "error-empty")
     ELSE IF Len(mp3Lines) # Len(videoLines)
     THEN MatchFailed(prev, "error-mismatch")
     ELSE LET uim == userInputMap(videoLines, mp3Lines)
              c   == count(vs, uim)
          IN [map          |-> setMp3UrlMap(prev, newMp3UrlMap(vs, uim)),
              matchedCount |-> c,
              matchStatus  |-> IF c > 0 THEN "matched" ELSE "no-match"]

\* The continue button always enabled.
continueDisabled_Never(c) == FALSE

\* Line 436: disabled={matchedCount === 0}.
continueDisabled(c) == c = 0

MatchStepUnmounted ==
  /\ mp3UrlsInput' = <<>>
  /\ videoUrlsInput' = <<>>
  /\ matchStatus' = "none"
  /\ matchedCount' = 0
  /\ matchedSince' = "none"
  /\ replacedKeys' = {}

\* Line 270: disabled={isLoading || !apifyToken || !geminiApiKey ||
\* !tiktokUrl}; the Apify token and the profile URL are taken as filled in.
scanDisabled(loading, key) == loading \/ key = ""

\* Lines 149-152: the scan button.
handleScan ==
  /\ stage = "scan"
  /\ ~scanDisabled(isLoading, geminiApiKey)
  /\ isLoading' = TRUE
  /\ videos' = <<>>
  /\ UNCHANGED <<stage, mp3UrlMap, pipeVars, matchVars, csvVars, fetches, geminiApiKey>>

\* Lines 154-157 and 161-163: the scan resolved.
ScanSucceeded ==
  /\ isLoading
  /\ \E data \in ScanResults : videos' = data
  /\ stage' = "scan-results"
  /\ isLoading' = FALSE
  /\ UNCHANGED <<mp3UrlMap, pipeVars, matchVars, csvVars, fetches, geminiApiKey>>

\* Lines 158-163: the scan threw.
ScanFailed ==
  /\ isLoading
  /\ isLoading' = FALSE
  /\ UNCHANGED <<stage, videos, mp3UrlMap, pipeVars, matchVars, csvVars, fetches, geminiApiKey>>

\* Lines 320 and 434: the back buttons.
BackToScan ==
  /\ stage \in {"scan-results", "match"}
  /\ stage' = "scan"
  /\ MatchStepUnmounted
  /\ UNCHANGED <<videos, mp3UrlMap, pipeVars, isLoading, csvVars, fetches, geminiApiKey>>

\* The mount effect without its setMp3UrlMap({}).
MatchStepMounted_KeepMap(map) == map

\* Lines 336-339: the effect MatchStep runs once when it mounts.
MatchStepMounted(map) == setMp3UrlMap(map, EmptyMap)

\* Line 321, then MatchStep mounts and its effect clears the map.
EnterMatch ==
  /\ stage = "scan-results"
  /\ stage' = "match"
  /\ mp3UrlMap' = MatchStepMounted(mp3UrlMap)
  /\ MatchStepUnmounted
  /\ UNCHANGED <<videos, pipeVars, isLoading, csvVars, fetches, geminiApiKey>>

\* Line 408.
setMp3UrlsInput ==
  /\ stage = "match"
  /\ \E v \in Edits(mp3UrlsInput, RawMp3Lines) :
       /\ v # mp3UrlsInput
       /\ mp3UrlsInput' = v
  /\ matchedSince' = IF matchedSince = "none" THEN "none" ELSE "edited"
  /\ UNCHANGED <<stage, videos, mp3UrlMap, pipeVars, isLoading, videoUrlsInput,
                 matchStatus, matchedCount, replacedKeys, csvVars, fetches, geminiApiKey>>

\* Line 420.
setVideoUrlsInput ==
  /\ stage = "match"
  /\ \E v \in Edits(videoUrlsInput, RawVideoLines) :
       /\ v # videoUrlsInput
       /\ videoUrlsInput' = v
  /\ matchedSince' = IF matchedSince = "none" THEN "none" ELSE "edited"
  /\ UNCHANGED <<stage, videos, mp3UrlMap, pipeVars, isLoading, mp3UrlsInput,
                 matchStatus, matchedCount, replacedKeys, csvVars, fetches, geminiApiKey>>

\* Lines 341-381, the match button (428).
handleMatch ==
  /\ stage = "match"
  /\ LET r == Match(mp3UrlMap, videos, mp3UrlsInput, videoUrlsInput)
     IN /\ mp3UrlMap' = r.map
        /\ matchedCount' = r.matchedCount
        /\ matchStatus' = r.matchStatus
  /\ matchedSince' = "fresh"
  /\ replacedKeys' = Keys(mp3UrlMap)
  /\ UNCHANGED <<stage, videos, pipeVars, isLoading, mp3UrlsInput,
                 videoUrlsInput, csvVars, fetches, geminiApiKey>>

\* Line 436: the continue button.
EnterResults ==
  /\ stage = "match"
  /\ ~continueDisabled(matchedCount)
  /\ stage' = "results"
  /\ MatchStepUnmounted
  /\ UNCHANGED <<videos, mp3UrlMap, pipeVars, isLoading, csvVars, fetches, geminiApiKey>>

InitFlow ==
  /\ stage = "scan"
  /\ videos = <<>>
  /\ mp3UrlMap = EmptyMap
  /\ transcriptStates = [u \in Urls |-> None]
  /\ transcriptCache = [u \in Urls |-> None]
  /\ stopRequest = FALSE
  /\ status = Status("ready", 0)
  /\ isProcessing = FALSE
  /\ appDirty = FALSE
  /\ runs = <<>>
  /\ isLoading = FALSE
  /\ NoMatchStep
  /\ videoText = [u \in Urls |-> <<>>]
  /\ download = NoDownload
  /\ fetches = <<>>
  /\ geminiApiKey = StoredKey

\* The workflow up to the results view, without the transcription runs.
NextFlow ==
  \/ handleScan
  \/ ScanSucceeded
  \/ ScanFailed
  \/ BackToScan
  \/ EnterMatch
  \/ setMp3UrlsInput
  \/ setVideoUrlsInput
  \/ handleMatch
  \/ EnterResults
  \/ handleStartOver

SpecFlow == InitFlow /\ [][NextFlow]_vars


\* This step is a run of handleMatch.
MatchTaken == stage = "match" /\ stage' = "match" /\ matchedSince' = "fresh"

\* The cleaned lists handleMatch works on.
mp3Lines == Lines(mp3UrlsInput)

videoLines == Lines(videoUrlsInput)

Pairable == Len(mp3Lines) > 0 /\ Len(mp3Lines) = Len(videoLines)

\* C14.  Whenever, after trimming and dropping blank lines, one of the two
\* lists is empty or their lengths differ, handleMatch fails whatever the
\* lines are: it leaves mp3UrlMap empty, matchedCount 0 and an error status.
C14_MatchFailure ==
  [][MatchTaken /\ ~Pairable =>
       /\ Keys(mp3UrlMap') = {}
       /\ matchedCount' = 0
       /\ matchStatus' \in {"error-empty", "error-mismatch"}]_vars

\* A match of two audio lines against one video line, a scanned one, failed
\* and emptied a mapping that had an entry.
C14_Witness ==
  /\ stage = "match" /\ matchedSince = "fresh"
  /\ Len(mp3Lines) = 2 /\ videoLines = <<"v1">> /\ "v1" \in Range(videos)
  /\ replacedKeys # {}
  /\ Keys(mp3UrlMap) = {} /\ matchedCount = 0 /\ matchStatus = "error-mismatch"

\* C15.  For equal-length non-empty lists the mapping has as many entries as
\* there are video URLs in the input list that are scanned (a URL repeated in
\* the list is one URL).
C15_MapSize ==
  [][MatchTaken /\ Pairable =>
       Cardinality(Keys(mp3UrlMap')) =
         Cardinality(Range(videoLines) \cap Range(videos))]_vars

\* Two scanned records, both listed: two entries.
C15_Witness ==
  /\ stage = "match" /\ matchedSince = "fresh" /\ Pairable
  /\ videos = ScannedUrls
  /\ Range(videoLines) = Urls
  /\ Cardinality(Keys(mp3UrlMap)) = 2

\* C16.  For equal-length non-empty lists the mapping is the positional
\* pairing filtered to the scanned records: every entry v -> a has v scanned
\* and a the audio line at a position where v is the video line; every listed
\* scanned URL has an entry and no unscanned URL has one.
C16_PositionalFiltered ==
  [][MatchTaken /\ Pairable =>
       /\ \A v \in Keys(mp3UrlMap') :
            /\ v \in Range(videos)
            /\ \E n \in 1..Len(videoLines) :
                 videoLines[n] = v /\ mp3Lines[n] = mp3UrlMap'[v]
       /\ \A n \in 1..Len(videoLines) :
            videoLines[n] \in Keys(mp3UrlMap') <=> videoLines[n] \in Range(videos)]_vars

\* The example: audio [a1, a2], video [v1, v2], scanned {v1} gives {v1: a1}
\* and count 1.
C16_Witness ==
  /\ stage = "match" /\ matchedSince = "fresh"
  /\ mp3Lines = <<"a1", "a2">> /\ videoLines = <<"v1", "v2">>
  /\ videos = <<"v1">>
  /\ mp3UrlMap = [EmptyMap EXCEPT !["v1"] = "a1"]
  /\ matchedCount = 1

\* C17.  handleMatch replaces the mapping: what it leaves is what it would
\* leave had the mapping been empty before, so no earlier entry survives; and
\* run again on unchanged inputs it leaves the same mapping, count and status.
C17_ReplaceAndIdempotent ==
  [][MatchTaken =>
       /\ mp3UrlMap' = Match(EmptyMap, videos, mp3UrlsInput, videoUrlsInput).map
       /\ \A v \in Keys(mp3UrlMap') :
            \E n \in 1..Len(videoLines) :
              Pairable /\ videoLines[n] = v /\ mp3Lines[n] = mp3UrlMap'[v]
       /\ matchedSince = "fresh" =>
            /\ mp3UrlMap' = mp3UrlMap
            /\ matchedCount' = matchedCount
            /\ matchStatus' = matchStatus]_vars

\* A match replaced {v1: ..} by {v2: ..}.
C17_Witness ==
  /\ stage = "match" /\ matchedSince = "fresh"
  /\ replacedKeys = {"v1"}
  /\ Keys(mp3UrlMap) = {"v2"}
  /\ videos = ScannedUrls

\* C18.  In the results stage mp3UrlMap is never empty.
C18_ResultsHasMatches == stage = "results" => Keys(mp3UrlMap) # {}

\* The results stage entered after a match of one of two scanned records.
C18_Witness ==
  /\ stage = "results"
  /\ Len(videos) = 2
  /\ Cardinality(Keys(mp3UrlMap)) = 1


\* ------------------------------------------------------------- downloadCsv

\* Characters a field may hold: an ordinary one, and the four that matter to
\* a CSV table.
Comma == ","

Quote == "\""

LF == "\n"

CR == "\r"

Chars == {"x", Comma, Quote, LF, CR}

\* Longest description considered, in characters.
MaxFieldLen == 2

\* The strings a record's text may be.
FieldTexts == UNION {[1..n -> Chars] : n \in 0..MaxFieldLen}

\* The transcripts the service returns, as strings.
TextOf(t) == IF t = "t1" THEN <<"x">> ELSE <<"x", LF, "x">>

\* A webVideoUrl as a string.
StrOf(u) == <<u>>

NA == <<"N", "/", "A">>

BOM == "BOM"

\* stringField.replace(/"/g, '""'), line 12.
RECURSIVE DoubleQuotes(_)
DoubleQuotes(str) ==
  IF str = <<>> THEN <<>>
  ELSE (IF Head(str) = Quote THEN <<Quote, Quote>> ELSE <<Head(str)>>)
         \o DoubleQuotes(Tail(str))

\* Lines 8-14.  The fields are strings (apifyService gives every absent one
\* a default), so the null test of lines 5-7 is never met.
sanitizeCsvField(field) ==
  IF \E n \in 1..Len(field) : field[n] \in {Quote, Comma, LF}
  THEN <<Quote>> \o DoubleQuotes(field) \o <<Quote>>
  ELSE field

\* Array.prototype.join.
RECURSIVE Join(_, _)
Join(strs, sep) ==
  IF strs = <<>> THEN <<>>
  ELSE IF Len(strs) = 1 THEN strs[1]
  ELSE strs[1] \o <<sep>> \o Join(Tail(strs), sep)

\* Lines 25-29, each header cell as one token.
headers ==
  << <<"ID">>, <<"URL">>, <<"Timestamp ISO">>, <<"Author Name">>,
     <<"Author Nickname">>, <<"Author Avatar">>, <<"Description">>,
     <<"Likes">>, <<"Comments">>, <<"Shares">>, <<"Plays">>, <<"Duration (s)">>,
     <<"Video Height">>, <<"Video Width">>, <<"Music Name">>, <<"Music Author">>,
     <<"Original Music">>, <<"Transcript">> >>

\* The transcript column without the 'N/A' sentinel.
transcript_NoSentinel(transcripts, u) ==
  IF transcripts[u] # None THEN TextOf(transcripts[u]) ELSE <<>>

\* Line 32: transcripts[video.webVideoUrl] || 'N/A'.
transcript(transcripts, u) ==
  IF transcripts[u] # None /\ TextOf(transcripts[u]) # <<>>
  THEN TextOf(transcripts[u]) ELSE NA

\* The values of the 18 columns of the record of u, as strings (lines 34-51).
Values(u, texts, transcripts) ==
  << StrOf(u), StrOf(u), <<"x">>, <<"x">>, <<"x">>, <<"x">>, texts[u],
     <<"0">>, <<"0">>, <<"0">>, <<"0">>, <<"0">>, <<"0">>, <<"0">>,
     <<"x">>, <<"x">>, <<"f", "a", "l", "s", "e">>,
     transcript(transcripts, u) >>

\* The columns written through sanitizeCsvField (lines 34-40, 48, 49, 51).
Sanitized == (1..7) \cup {15, 16, 18}

\* Lines 33-52, before the join.
Row(u, texts, transcripts) ==
  LET vals == Values(u, texts, transcripts)
  IN [n \in 1..Len(vals) |->
        IF n \in Sanitized THEN sanitizeCsvField(vals[n]) ELSE vals[n]]

\* Lines 18-71.
downloadCsvResult(vs, texts, transcripts) ==
  IF Len(vs) = 0
  THEN [alerted |-> TRUE, rows |-> <<>>, file |-> <<>>]
  ELSE LET rows == [n \in 1..Len(vs) |-> Row(vs[n], texts, transcripts)]
           lns  == [n \in 1..Len(vs) |-> Join(rows[n], Comma)]
       IN [alerted |-> FALSE,
           rows    |-> rows,
           file    |-> <<BOM>> \o Join(headers, Comma) \o <<LF>> \o Join(lns, LF)]

\* The download button of the results view (shown while not isProcessing).
downloadCsv ==
  /\ stage = "results"
  /\ ~isProcessing
  /\ download' = downloadCsvResult(videos, videoText, transcriptCache)
  /\ UNCHANGED <<stage, videos, mp3UrlMap, pipeVars, isLoading, matchVars, videoText, fetches, geminiApiKey>>

\* The results view at rest; the arguments of downloadCsv range over every
\* record list, the empty one included, and every cache.
InitCsv ==
  /\ stage = "results"
  /\ videos \in ScanResults
  /\ videoText \in [Urls -> FieldTexts]
  /\ \A u \in Urls \ Range(videos) : videoText[u] = <<>>
  /\ transcriptCache \in [Urls -> {None, "t2"}]
  /\ mp3UrlMap = [u \in Urls |-> IF u \in Range(videos) THEN "a1" ELSE None]
  /\ transcriptStates = [u \in Urls |-> None]
  /\ stopRequest = FALSE
  /\ status = Status("ready", 0)
  /\ isProcessing = FALSE
  /\ appDirty = FALSE
  /\ runs = <<>>
  /\ isLoading = FALSE
  /\ NoMatchStep
  /\ download = NoDownload
  /\ fetches = <<>>
  /\ geminiApiKey = StoredKey

NextCsv == downloadCsv

SpecCsv == InitCsv /\ [][NextCsv]_vars


\* A reader of CSV tables (RFC 4180, accepting LF, CR and CRLF as the end of
\* a record, and skipping a leading byte-order mark).  Its state: mode is
\* "start" at the start of a field, "plain" inside an unquoted field,
\* "quoted" inside a quoted one, "quote" after a quote met inside a quoted
\* field; cr tells that the last character was a CR that ended a record.
ReaderStart ==
  [mode |-> "start", cr |-> FALSE, field |-> <<>>, record |-> <<>>, records |-> <<>>]

\* The reader takes one character.
ReadChar(r, c) ==
  CASE r.mode = "quoted" /\ c = Quote ->
         [r EXCEPT !.mode = "quote", !.cr = FALSE]
    [] r.mode = "quoted" /\ c # Quote ->
         [r EXCEPT !.field = Append(@, c), !.cr = FALSE]
    [] r.mode = "quote" /\ c = Quote ->
         [r EXCEPT !.mode = "quoted", !.field = Append(@, Quote)]
    [] r.mode = "start" /\ c = Quote ->
         [r EXCEPT !.mode = "quoted", !.cr = FALSE]
    [] r.mode # "quoted" /\ c = Comma ->
         [r EXCEPT !.mode = "start", !.cr = FALSE, !.field = <<>>,
                   !.record = Append(@, r.field)]
    [] r.mode # "quoted" /\ c = LF /\ r.cr ->
         [r EXCEPT !.cr = FALSE]
    [] r.mode # "quoted" /\ c \in {LF, CR} /\ ~(c = LF /\ r.cr) ->
         [mode |-> "start", cr |-> c = CR, field |-> <<>>, record |-> <<>>,
          records |-> Append(r.records, Append(r.record, r.field))]
    [] OTHER ->
         [r EXCEPT !.mode = "plain", !.cr = FALSE, !.field = Append(@, c)]

\* The reader at the end of the file.
ReadEnd(r) ==
  IF r.mode = "start" /\ r.record = <<>> THEN r.records
  ELSE Append(r.records, Append(r.record, r.field))

\* The reader takes the characters lo..hi of str, in order (the test on left
\* has TLC compute the first half before it starts on the second).
RECURSIVE ReadRange(_, _, _, _)
ReadRange(r, str, lo, hi) ==
  IF lo > hi THEN r
  ELSE IF lo = hi THEN ReadChar(r, str[lo])
  ELSE LET mid  == (lo + hi) \div 2
           left == ReadRange(r, str, lo, mid)
       IN IF left = ReaderStart THEN ReadRange(ReaderStart, str, mid + 1, hi)
          ELSE ReadRange(left, str, mid + 1, hi)

ReadCsv(file) ==
  ReadEnd(ReadRange(ReaderStart, file,
                    IF file # <<>> /\ file[1] = BOM THEN 2 ELSE 1, Len(file)))

\* downloadCsv was called.
Downloaded == download # NoDownload

\* C19.  downloadCsv writes one row per record, in the records' order, whose
\* transcript column is the cached transcript of the record's webVideoUrl or
\* 'N/A' when there is none; with no record it alerts and writes no file.
C19_OneRowPerRecord ==
  Downloaded =>
    /\ download.alerted <=> Len(videos) = 0
    /\ download.alerted => download.file = <<>>
    /\ ~download.alerted =>
         /\ Len(download.rows) = Len(videos)
         /\ \A n \in 1..Len(videos) :
              LET u == videos[n]
              IN /\ Len(download.rows[n]) = Len(headers)
                 /\ download.rows[n][2] = sanitizeCsvField(StrOf(u))
                 /\ download.rows[n][Len(headers)] =
                      sanitizeCsvField(IF transcriptCache[u] # None
                                       THEN TextOf(transcriptCache[u]) ELSE NA)
         /\ download.file =
              <<BOM>> \o Join(headers, Comma) \o <<LF>>
                \o Join([n \in 1..Len(videos) |-> Join(download.rows[n], Comma)], LF)

\* Two records were exported, the first with a cached transcript and the
\* second without.
C19_Witness ==
  /\ Downloaded /\ ~download.alerted
  /\ videos = ScannedUrls
  /\ transcriptCache["v1"] # None /\ transcriptCache["v2"] = None
  /\ Len(download.rows) = 2
  /\ download.rows[2][Len(headers)] = NA

\* The characters that make a line break.
LineBreaks == {LF, CR}

\* C20.  Every exported value that holds a comma, a quote or a line break
\* is written wrapped in quotes with its quotes doubled, and a CSV reader
\* gets back, after the header record, one record per exported record with
\* the original values of its columns.
C20_FieldsRoundTrip ==
  Downloaded /\ ~download.alerted =>
    /\ \A n \in 1..Len(videos) : \A col \in Sanitized :
         LET val == Values(videos[n], videoText, transcriptCache)[col]
         IN (\E m \in 1..Len(val) : val[m] \in {Comma, Quote} \cup LineBreaks)
              => download.rows[n][col] = <<Quote>> \o DoubleQuotes(val) \o <<Quote>>
    /\ LET recs == ReadCsv(download.file)
       IN /\ Len(recs) = 1 + Len(videos)
          /\ \A n \in 1..Len(videos) :
               recs[n + 1] = Values(videos[n], videoText, transcriptCache)

\* The same of the exports whose records' texts hold no carriage return.
RoundTripWithoutCarriageReturn ==
  (\A u \in Range(videos) : CR \notin Range(videoText[u])) => C20_FieldsRoundTrip


\* -------------------------------------------------------- getBase64FromUrl

\* Calls of getBase64FromUrl considered.
MaxFetches == 2

\* What fetch(url) may come to: a rejection, or a response with its ok flag,
\* the type of its blob and what FileReader makes of it.
Responses ==
  {[rejected |-> TRUE, ok |-> FALSE, type |-> "", data |-> ""]}
    \cup [rejected : {FALSE}, ok : BOOLEAN,
          type : {"audio/mpeg", "text/html", ""}, data : {"base64", ""}]

\* The statement of the try block that throws, "none" when none does
\* (lines 13-30).
thrownAt(resp) ==
  IF resp.rejected THEN "fetch"
  ELSE IF ~resp.ok THEN "network"
  ELSE IF resp.type # "audio/mpeg" THEN "content-type"
  ELSE IF resp.data = "" THEN "base64"
  ELSE "none"

\* Lines 32-35: the catch block throws a new Error with a fixed message.
rethrown(cause) == [ok |-> FALSE, message |-> "Could not fetch audio. CORS"]

\* Lines 12-36: what the promise settles to.
getBase64FromUrlResult(resp) ==
  IF thrownAt(resp) = "none"
  THEN [ok |-> TRUE, base64 |-> resp.data, mimeType |-> resp.type]
  ELSE rethrown(thrownAt(resp))

getBase64FromUrl ==
  /\ Len(fetches) < MaxFetches
  /\ \E resp \in Responses :
       fetches' = Append(fetches, [response |-> resp,
                                   outcome  |-> getBase64FromUrlResult(resp)])
  /\ UNCHANGED <<stage, videos, mp3UrlMap, pipeVars, isLoading, matchVars, csvVars,
                 geminiApiKey>>

InitFetch == InitFlow

NextFetch == getBase64FromUrl

SpecFetch == InitFetch /\ [][NextFetch]_vars

\* C21.  getBase64FromUrl fails when the response is not ok and when the
\* blob's type is not audio, every failure carries the one cross-origin
\* message, and the outcomes of a not-ok response and of a non-audio one
\* differ, so that a caller can tell the two conditions apart.
C21_FailuresDistinguishable ==
  /\ \A n \in 1..Len(fetches) :
       LET f == fetches[n]
       IN /\ ~f.response.rejected /\ ~f.response.ok => ~f.outcome.ok
          /\ ~f.response.rejected /\ f.response.type # "audio/mpeg" => ~f.outcome.ok
          /\ ~f.outcome.ok => f.outcome.message = "Could not fetch audio. CORS"
  /\ \A n, m \in 1..Len(fetches) :
       /\ thrownAt(fetches[n].response) = "network"
       /\ thrownAt(fetches[m].response) = "content-type"
       => fetches[n].outcome # fetches[m].outcome


\* C22.  No step removes a key of transcriptCache, a key is added only by the
\* step in which an activation sees the transcription of that URL succeed,
\* and so every key was there at the start or comes from such a success; this
\* through failed items, stop, start over and a reload of the page.
C22_CacheKeysFromSuccess ==
  /\ [][\A u \in Urls :
          /\ transcriptCache[u] # None => transcriptCache'[u] # None
          /\ transcriptCache[u] = None /\ transcriptCache'[u] # None =>
               \E k \in RunIds :
                 /\ <<u, transcriptCache'[u]>> \in runs'[k].succeeded
                 /\ <<u, transcriptCache'[u]>> \notin runs[k].succeeded]_vars
  /\ [](runs # <<>> =>
          \A u \in Urls :
            transcriptCache[u] # None =>
              u \in runs[1].cachedAtStart \/ \E k \in RunIds : u \in SucceededUrls(k))

\* After a reload that killed an activation, the cache still holds an entry
\* that a transcription added and one it had at the start.
C22_Witness ==
  /\ stage = "scan"
  /\ \E k \in RunIds : runs[k].pc = "killed"
  /\ \E u \in Urls : transcriptCache[u] # None /\ u \notin runs[1].cachedAtStart
  /\ \E u \in Urls : transcriptCache[u] # None /\ u \in runs[1].cachedAtStart


\* C23.  In every state of the workflow every key of mp3UrlMap is the
\* webVideoUrl of a record of videos.
C23_MapKeysScanned == Keys(mp3UrlMap) \subseteq Range(videos)

\* C24.  stopRequest goes from set to clear only in the step that starts a new
\* activation, and at that moment no earlier activation is still running: a
\* stop that was requested is never cleared under an activation that has yet
\* to read it.
C24_StopClearedOnlyForNewRun ==
  [][(stopRequest /\ ~stopRequest') =>
       /\ Len(runs') = Len(runs) + 1
       /\ \A k \in RunIds : runs[k].pc = "done"]_vars

\* The first half alone: the only step that clears stopRequest is the start of
\* an activation.
StopClearedOnlyAtRunStart ==
  [][(stopRequest /\ ~stopRequest') => Len(runs') = Len(runs) + 1]_vars

C26_MatchStartsEmpty ==
  /\ [][(stage # "match" /\ stage' = "match") => Keys(mp3UrlMap') = {}]_vars
  /\ []((stage = "match" /\ matchedSince = "none") => Keys(mp3UrlMap) = {})

\* The match stage, entered with a list of scanned videos, both inputs
\* typed, and no match performed yet.
C26_Witness ==
  /\ stage = "match" /\ matchedSince = "none"
  /\ videos # <<>>
  /\ Pairable
  /\ Keys(mp3UrlMap) = {}

\* C27.  After a match of two non-empty lists of equal length matchedCount is
\* the number of entries of the new mp3UrlMap.
C27_CountIsMapSize ==
  [][(MatchTaken /\ Pairable) =>
       matchedCount' = Cardinality(Keys(mp3UrlMap'))]_vars

\* The same for scanned lists in which no webVideoUrl occurs twice.
CountIsMapSizeForDistinctRecords ==
  [][(MatchTaken /\ Pairable /\ Cardinality(Range(videos)) = Len(videos)) =>
       matchedCount' = Cardinality(Keys(mp3UrlMap'))]_vars

\* C28.  transcriptCache and transcriptStates change only in steps of an
\* activation of runTranscription: a step that starts no activation and moves
\* none (a scan, a match, a back button, start over, stop, an export) leaves
\* both unchanged.
C28_OnlyPipelineWrites ==
  [][(runs' = runs) => UNCHANGED <<transcriptCache, transcriptStates>>]_vars

\* The same for transcriptCache alone.
OnlyPipelineWritesCache ==
  [][(runs' = runs) => UNCHANGED transcriptCache]_vars

\* C29.  Within one attempt of an item: the transcription call is issued only
\* by the step in which the item's audio fetch succeeded; the success status,
\* the count and the cache write come only with the step in which that call
\* returned; and an attempt whose fetch failed goes to error without a
\* transcription call.  A new activation has issued no call.
C29_AttemptOrder ==
  [][/\ \A k \in RunIds :
          (Len(runs') = Len(runs) /\ runs'[k] # runs[k]) =>
            LET r   == runs[k]
                r2  == runs'[k]
                url == r.q[r.i]
            IN /\ (r2.transcribed # r.transcribed) =>
                    /\ r.pc = "fetching" /\ r2.pc = "transcribing"
                    /\ r2.transcribed = Append(r.transcribed, url)
                    /\ r.fetched[Len(r.fetched)] = url
                    /\ transcriptStates'[url] = "transcribing"
               /\ (r2.succeeded # r.succeeded \/ r2.successCount # r.successCount) =>
                    /\ r.pc = "transcribing"
                    /\ r.transcribed[Len(r.transcribed)] = url
                    /\ r2.succeeded = r.succeeded \cup {<<url, transcriptCache'[url]>>}
               /\ (r.pc = "fetching" /\ r2.pc # "transcribing") =>
                    /\ url \in r2.failed
                    /\ r2.transcribed = r.transcribed
                    /\ r2.succeeded = r.succeeded
                    /\ transcriptCache'[url] = transcriptCache[url]
     /\ \A u \in Urls :
          (transcriptCache'[u] # transcriptCache[u]
             \/ (transcriptStates'[u] = "success" /\ transcriptStates[u] # "success")) =>
            \E k \in RunIds :
              /\ runs[k].pc = "transcribing" /\ runs[k].q[runs[k].i] = u
              /\ Len(runs') = Len(runs)
              /\ <<u, transcriptCache'[u]>> \in runs'[k].succeeded \ runs[k].succeeded
     /\ (Len(runs') > Len(runs)) => runs'[Len(runs')].transcribed = <<>>]_vars

\* An activation whose first item failed at the fetch and whose second item
\* was fetched, transcribed and cached: one call for two fetches.
C29_Witness ==
  \E k \in RunIds :
    /\ Len(runs[k].fetched) = 2
    /\ runs[k].transcribed = <<runs[k].fetched[2]>>
    /\ runs[k].failed = {runs[k].fetched[1]}
    /\ SucceededUrls(k) = {runs[k].fetched[2]}
    /\ transcriptCache[runs[k].fetched[2]] # None
    /\ transcriptCache[runs[k].fetched[1]] = None

\* ------------------------------------------------- the results view left alone

\* Where the record of the next activation goes: a new place while fewer than
\* MaxRuns activations were started, else the place of one that has returned.
\* No place is free while MaxRuns activations are running.
FreePlaces ==
  IF Len(runs) < MaxRuns THEN {Len(runs) + 1}
  ELSE LET done == {k \in RunIds : runs[k].pc = "done"}
       IN {k \in done : \A j \in done : k <= j}

\* The effect of lines 500-506 as in RunEffect, with no limit on the number
\* of activations it starts one after the other.
RunEffectAgain ==
  /\ stage = "results"
  /\ runs = <<>> \/ appDirty
  /\ \E k \in FreePlaces :
       LET w0 == [World(NewRun(videos, mp3UrlMap, transcriptCache))
                    EXCEPT !.appDirty = FALSE,
                           !.stopRequest = IF runs = <<>> THEN @ ELSE TRUE]
       IN Commit(k, RunStart(w0))

\* The steps of the results view when the user does nothing.
NextLive ==
  \/ RunEffectAgain
  \/ \E k \in 1..Len(runs) : FetchDone(k)
  \/ \E k \in 1..Len(runs) : TranscribeOk(k)
  \/ \E k \in 1..Len(runs) : TranscribeFail(k)
  \/ \E k \in 1..Len(runs) : DelayDone(k)

\* React runs a pending effect; every awaited fetch, transcription call and
\* timer settles.
Fairness ==
  /\ WF_vars(RunEffectAgain)
  /\ \A k \in 1..MaxRuns :
       /\ WF_vars(k \in RunIds /\ FetchDone(k))
       /\ WF_vars(k \in RunIds /\ (TranscribeOk(k) \/ TranscribeFail(k)))
       /\ WF_vars(k \in RunIds /\ DelayDone(k))

SpecLive == Init /\ [][NextLive]_vars /\ Fairness

\* No activation is running, no effect is pending, and the view shows no
\* processing.
Quiescent ==
  /\ \A k \in RunIds : runs[k].pc = "done"
  /\ ~appDirty
  /\ ~isProcessing

\* C30.  Left alone, with every fetch, call and timer settling, the results
\* view becomes quiescent and stays so.
C30_EventuallyQuiescent == <>[]Quiescent

\* Every matched video has a cached transcript.
AllCached == \A u \in Keys(mp3UrlMap) : transcriptCache[u] # None

\* What does hold: once every matched video is cached the view becomes
\* quiescent and stays so.
QuiescentOnceAllCached == AllCached ~> []Quiescent

\* ------------------------------------------------------- the key input

\* Line 251: onChange of the Google AI key input of ScanStep.  The input is
\* shown whenever the stage is 'scan' and is not disabled while a scan is
\* loading.
setGeminiApiKey ==
  /\ stage = "scan"
  /\ \E key \in KeyInputs \ {geminiApiKey} : geminiApiKey' = key
  /\ UNCHANGED <<stage, videos, mp3UrlMap, pipeVars, isLoading, matchVars,
                 csvVars, fetches>>

InitKey == InitFlow

\* The workflow with edits of the key input.
NextKey == NextFlow \/ setGeminiApiKey

SpecKey == InitKey /\ [][NextKey]_vars

\* C31.  Whenever the workflow is in the results stage geminiApiKey is not
\* empty.
C31_KeyInResults == stage = "results" => geminiApiKey # ""

\* What does hold: a scan is started only with a key in the input.
ScanStartsWithKey ==
  [][(~isLoading /\ isLoading') => geminiApiKey # ""]_vars

\* C32.  While the results view is shown and an audio fetch or a transcription
\* call of some activation is outstanding, isProcessing is true (so the view
\* shows the stop button, not the start over and CSV buttons).
C32_ProcessingWhileInFlight ==
  (stage = "results" /\ \E k \in RunIds : InFlight(k)) => isProcessing

\* What does hold: an activation leaves isProcessing true from its start to
\* its own end; only the end of an activation sets it false.
ProcessingClearedOnlyAtRunEnd ==
  [][(isProcessing /\ ~isProcessing') =>
       \E k \in RunIds : runs[k].pc # "done" /\ runs'[k].pc = "done"]_vars

============================================================================
